---- MODULE Spec2Model ----
(***************************************************************************)
(* mcpgate: a gateway that dispatches inbound MCP sessions to named        *)
(* upstream MCP servers.  The module models                                *)
(*   - App (src/src/main.rs): the config snapshot, the per-service router  *)
(*     cache, serve_mcp lookups and reload_config;                         *)
(*   - the reload supervisor loop of main (src/src/main.rs);               *)
(*   - Gate (src/src/gate.rs): the per-session proxy and its client slot.  *)
(* Every `.await` of the source is a suspension point and ends a step; the *)
(* code between two suspension points is one action.                       *)
(***************************************************************************)
EXTENDS Integers, Sequences, FiniteSets, TLC

----------------------------------------------------------------------------
(* Bounds of the model *)

\* number of routers make_mcp_router can build in one run
MaxRouters == 2
\* the clock stops at MaxTime seconds
MaxTime == 5
\* the count of events of a burst saturates at BurstCap
BurstCap == 2
\* number of create_client calls in one run
MaxClients == 2

\* service names
Names == {"a", "b"}
\* concurrent serve_mcp requests
Lookups == {1, 2}

----------------------------------------------------------------------------
(* Data model *)

\* ServerEntry values (McpServerConfig, compared with the derived PartialEq):
\* two values that differ are enough to tell a changed entry from an equal one
Entries == {"A", "B"}
\* servers.get(name) == None
NoEntry == "none"
\* Config.servers: a map from service name to ServerEntry
Configs == [Names -> Entries \cup {NoEntry}]

\* routers.get(name) == None
NoRouter == [id |-> 0, entry |-> NoEntry]
\* a Router built by make_mcp_router: its Gate factories capture the entry
Routers == [id : 1..MaxRouters, entry : Entries]
\* the empty HashMap of App.routers
EmptyCache == [n \in Names |-> NoRouter]
\* the empty config, the value of reload_config's locals outside a call
NoConfig == [n \in Names |-> NoEntry]
\* keys of the router cache
CacheKeys(rt) == {n \in Names : rt[n] # NoRouter}
\* keys of a config
ConfigKeys(cfg) == {n \in Names : cfg[n] # NoEntry}

VARIABLES
    \* ---- App ----
    config,         \* App.config: the current snapshot
    routers,        \* App.routers: name -> Router
    routers_lock,   \* "free", or "write" while reload_config holds the write guard
    nextRouter,     \* identity of the next Router make_mcp_router builds
    lk,             \* serve_mcp requests: position, service name, router in hand
    r_pc,           \* reload_config: position
    r_new,          \* reload_config: new_config
    r_removed,      \* reload_config: removed
    r_result,       \* result of the last reload_config call
    r_pre_config,   \* history: config when the running reload_config was called
    r_pre_routers,  \* history: routers when the running reload_config was called
    r_overlap,      \* history: a serve_mcp step ran during the reload_config call
    \* ---- reload supervisor ----
    now,            \* the clock, in seconds
    reload,         \* `reload`: NoTimer, or the deadline of the pending sleep
    chan,           \* the mpsc channel from the watcher callback to the loop
    chan_open,      \* the watcher, owner of the sender, is alive
    sup_pc,         \* "loop", or "stopped" after the loop's break
    burst,          \* history: content-modified events received since the last reload
    fired,          \* history: the burst that the last reload_config call served
    last_ev,        \* history: the kind of the event the loop received last
    \* ---- Gate (one inbound session) ----
    client,         \* Gate.client: NoClient, or the stored upstream client
    nextClient,     \* identity of the client the next create_client call makes
    hs,             \* per client: state of its transport and initialize handshake
    rq,             \* handle_request calls: position, request, client in hand, reply
    slot_writes,    \* history: number of writes to Gate.client
    retry,          \* history: clients made after some create_client call had failed
    peer_info,      \* ctx.peer.peer_info(): the ClientInfo of the session's peer
    cl,             \* per client: the ClientInfo it was made with, its peer_info()
    out,            \* per call: the payload of the reply
    \* ---- a list request of a bound Gate ----
    pg_pc,          \* position of the list request
    pg_kind,        \* which list request it is
    pg_upstream,    \* the pages the upstream serves for it
    pg_cursor,      \* list_all_*: the cursor of the next page request
    pg_items,       \* list_all_*: the items collected so far
    pg_reply,       \* the reply of the Gate
    \* ---- one ServerEntry parsed and serialized ----
    p_pc,           \* "idle", "parsed" or "serialized"
    p_in,           \* the JSON object given to the parser
    p_out,          \* the result of parsing it
    p_ser,          \* the JSON object serialized from the result
    \* ---- list_servers ----
    cfg_readers,    \* read guards of app.config held across steps
    ls_pc,          \* position of the list_servers call
    ls_q,           \* its query parameters and Host header
    ls_todo,        \* the names its iteration has not reached
    ls_resp,        \* the response map built so far
    ls_seen,        \* history: the entries the iteration has read
    ls_at,          \* history: the snapshot that was current when the guard was taken
    \* ---- Gate::handle_notification ----
    note,           \* the notification handled last and its result
    \* ---- the RwLocks and the handlers that take them ----
    guards,         \* the guards held: <<handler, lock, mode>>
    waiters,        \* per lock: the FIFO queue of the handlers that await it
    at              \* per handler: the path it runs and the step it is at

appVars == <<config, routers, routers_lock, nextRouter, lk, r_pc, r_new,
             r_removed, r_result, r_pre_config, r_pre_routers, r_overlap>>

supVars == <<now, reload, chan, chan_open, sup_pc, burst, fired, last_ev>>

gateVars == <<client, nextClient, hs, rq, slot_writes, retry, peer_info, cl, out>>

pageVars == <<pg_pc, pg_kind, pg_upstream, pg_cursor, pg_items, pg_reply>>

parseVars == <<p_pc, p_in, p_out, p_ser>>

lsVars == <<cfg_readers, ls_pc, ls_q, ls_todo, ls_resp, ls_seen, ls_at>>

lockVars == <<guards, waiters, at>>

\* the state of the handlers modelled on their own
extVars == <<pageVars, parseVars, lsVars, note, lockVars>>

vars == <<appVars, supVars, gateVars, extVars>>

----------------------------------------------------------------------------
(* serve_mcp (src/src/main.rs 323-366) *)

\* StatusCode::NOT_FOUND
NOT_FOUND == 404
\* serve_mcp has not returned a response of its own
NoResponse == [status |-> 0, body |-> <<>>]
\* lines 343-347: (StatusCode::NOT_FOUND, format!("Service {service_name} not found"))
NotFound(service_name) ==
    [status |-> NOT_FOUND, body |-> <<"Service ", service_name, " not found">>]

IdleLookup == [pc |-> "idle", name |-> "a", router |-> NoRouter,
               resp |-> NoResponse]

\* a serve_mcp step during a reload_config call makes the call a concurrent
\* one; the history of a concurrent call is not kept
Overlap == r_overlap \/ r_pc # "idle"
PreConfig == IF Overlap THEN NoConfig ELSE r_pre_config
PreRouters == IF Overlap THEN EmptyCache ELSE r_pre_routers

\* make_mcp_router: a fresh Router whose Gates are bound to server_config
make_mcp_router(server_config) == [id |-> nextRouter, entry |-> server_config]

\* line 337: app.routers.read().await.get(&service_name).cloned()
ServeReadRouters(t) ==
    /\ lk[t].pc = "idle"
    /\ routers_lock = "free"
    /\ \E n \in Names :
         lk' = [lk EXCEPT ![t] =
                 IF routers[n] # NoRouter
                 THEN [pc |-> "serve", name |-> n, router |-> routers[n],
                       resp |-> NoResponse]
                 ELSE [pc |-> "config", name |-> n, router |-> NoRouter,
                       resp |-> NoResponse]]
    /\ r_overlap' = Overlap
    /\ r_pre_config' = PreConfig
    /\ r_pre_routers' = PreRouters
    /\ UNCHANGED <<config, routers, routers_lock, nextRouter, r_pc, r_new,
                   r_removed, r_result>>
    /\ UNCHANGED <<supVars, gateVars, extVars>>

\* faulty variant: the miss is cached as a router without an entry
ServeNotFound_CachesMiss(t) ==
    /\ lk[t].pc = "config"
    /\ config[lk[t].name] = NoEntry
    /\ nextRouter <= MaxRouters
    /\ lk' = [lk EXCEPT ![t].pc = "returned",
                        ![t].resp = NotFound(lk[t].name)]
    /\ routers' = [routers EXCEPT ![lk[t].name] = make_mcp_router(NoEntry)]
    /\ nextRouter' = nextRouter + 1
    /\ r_overlap' = Overlap
    /\ r_pre_config' = PreConfig
    /\ r_pre_routers' = PreRouters
    /\ UNCHANGED <<config, routers_lock, r_pc, r_new, r_removed, r_result>>
    /\ UNCHANGED <<supVars, gateVars, extVars>>

\* lines 342-348: the service is not in the config snapshot: 404
ServeNotFound(t) ==
    /\ lk[t].pc = "config"
    /\ config[lk[t].name] = NoEntry
    /\ lk' = [lk EXCEPT ![t].pc = "returned",
                        ![t].resp = NotFound(lk[t].name)]
    /\ r_overlap' = Overlap
    /\ r_pre_config' = PreConfig
    /\ r_pre_routers' = PreRouters
    /\ UNCHANGED <<config, routers, routers_lock, nextRouter, r_pc, r_new,
                   r_removed, r_result>>
    /\ UNCHANGED <<supVars, gateVars, extVars>>

\* lines 343-348: serve_mcp has returned its own response
ServeReturn(t) ==
    /\ lk[t].pc = "returned"
    /\ lk' = [lk EXCEPT ![t] = IdleLookup]
    /\ UNCHANGED <<config, routers, routers_lock, nextRouter, r_pc, r_new,
                   r_removed, r_result, r_pre_config, r_pre_routers, r_overlap>>
    /\ UNCHANGED <<supVars, gateVars, extVars>>

\* lines 342-356: the entry is read from the snapshot and a router is built
ServeBuild(t) ==
    /\ lk[t].pc = "config"
    /\ config[lk[t].name] # NoEntry
    /\ nextRouter <= MaxRouters
    /\ lk' = [lk EXCEPT ![t].pc = "insert",
                        ![t].router = make_mcp_router(config[lk[t].name])]
    /\ nextRouter' = nextRouter + 1
    /\ r_overlap' = Overlap
    /\ r_pre_config' = PreConfig
    /\ r_pre_routers' = PreRouters
    /\ UNCHANGED <<config, routers, routers_lock, r_pc, r_new,
                   r_removed, r_result>>
    /\ UNCHANGED <<supVars, gateVars, extVars>>

\* lines 357-361: app.routers.write().await.insert(service_name, router.clone())
ServeInsert(t) ==
    /\ lk[t].pc = "insert"
    /\ routers_lock = "free"
    /\ routers' = [routers EXCEPT ![lk[t].name] = lk[t].router]
    /\ lk' = [lk EXCEPT ![t].pc = "serve"]
    /\ r_overlap' = Overlap
    /\ r_pre_config' = PreConfig
    /\ r_pre_routers' = PreRouters
    /\ UNCHANGED <<config, routers_lock, nextRouter, r_pc, r_new,
                   r_removed, r_result>>
    /\ UNCHANGED <<supVars, gateVars, extVars>>

\* lines 364-365: the request is served by the router in hand
ServeCall(t) ==
    /\ lk[t].pc = "serve"
    /\ lk' = [lk EXCEPT ![t] = IdleLookup]
    /\ UNCHANGED <<config, routers, routers_lock, nextRouter, r_pc, r_new,
                   r_removed, r_result, r_pre_config, r_pre_routers, r_overlap>>
    /\ UNCHANGED <<supVars, gateVars, extVars>>

----------------------------------------------------------------------------
(* App::reload_config (src/src/main.rs 194-220) *)

\* lines 198-204: cached keys that the new config does not contain
RemovedAbsent(rt, nc) == {k \in CacheKeys(rt) : nc[k] = NoEntry}

\* faulty variant: changed entries are not evicted
RemovedChanged_None(cfg, nc) == {}

\* lines 207-209: keys of the current snapshot whose entry differs in the new config
RemovedChanged(cfg, nc) ==
    {k \in ConfigKeys(cfg) : nc[k] # NoEntry /\ cfg[k] # nc[k]}

\* lines 214-216: routers.remove(&n) for every n in removed
Evict(rt, removed) == [n \in Names |-> IF n \in removed THEN NoRouter ELSE rt[n]]

\* a serve_mcp request is between its cache read and its insert
LookupInProgress == \E t \in Lookups : lk[t].pc \in {"config", "insert"}

\* faulty variant: the cache is cleared before the file is read
ReloadReadFail_Clears ==
    /\ r_pc = "idle"
    /\ r_pc' = "done"
    /\ r_result' = "err"
    /\ routers' = EmptyCache
    /\ r_overlap' = LookupInProgress
    /\ r_pre_config' = IF LookupInProgress THEN NoConfig ELSE config
    /\ r_pre_routers' = IF LookupInProgress THEN EmptyCache ELSE routers
    /\ UNCHANGED <<config, routers_lock, nextRouter, lk, r_new, r_removed>>
    /\ UNCHANGED <<supVars, gateVars, extVars>>

\* line 195: Config::read fails and `?` returns the error (no suspension
\* point lies between the call, main.rs line 123, and this return)
ReloadReadFail ==
    /\ r_pc = "idle"
    /\ r_pc' = "done"
    /\ r_result' = "err"
    /\ r_overlap' = LookupInProgress
    /\ r_pre_config' = IF LookupInProgress THEN NoConfig ELSE config
    /\ r_pre_routers' = IF LookupInProgress THEN EmptyCache ELSE routers
    /\ UNCHANGED <<config, routers, routers_lock, nextRouter, lk, r_new,
                   r_removed>>
    /\ UNCHANGED <<supVars, gateVars, extVars>>

\* line 195: Config::read succeeds
ReloadRead ==
    /\ r_pc = "idle"
    /\ \E nc \in Configs : r_new' = nc
    /\ r_pc' = "scan_routers"
    /\ r_overlap' = LookupInProgress
    /\ r_pre_config' = IF LookupInProgress THEN NoConfig ELSE config
    /\ r_pre_routers' = IF LookupInProgress THEN EmptyCache ELSE routers
    /\ UNCHANGED <<config, routers, routers_lock, nextRouter, lk,
                   r_removed, r_result>>
    /\ UNCHANGED <<supVars, gateVars, extVars>>

\* lines 197-205: removed, under routers.read()
ReloadScanRouters ==
    /\ r_pc = "scan_routers"
    /\ routers_lock = "free"
    /\ r_removed' = RemovedAbsent(routers, r_new)
    /\ r_pc' = "scan_config"
    /\ UNCHANGED <<config, routers, routers_lock, nextRouter, lk, r_new,
                   r_result, r_pre_config, r_pre_routers, r_overlap>>
    /\ UNCHANGED <<supVars, gateVars, extVars>>

\* lines 207-211: removed2 under config.read(), appended to removed
ReloadScanConfig ==
    /\ r_pc = "scan_config"
    /\ r_removed' = r_removed \cup RemovedChanged(config, r_new)
    /\ r_pc' = "evict"
    /\ UNCHANGED <<config, routers, routers_lock, nextRouter, lk, r_new,
                   r_result, r_pre_config, r_pre_routers, r_overlap>>
    /\ UNCHANGED <<supVars, gateVars, extVars>>

\* lines 213-216: the write guard is taken and the removed keys are evicted;
\* the guard lives to the end of the function
ReloadEvict ==
    /\ r_pc = "evict"
    /\ routers_lock = "free"
    /\ routers_lock' = "write"
    /\ routers' = Evict(routers, r_removed)
    /\ r_pc' = "swap"
    /\ UNCHANGED <<config, nextRouter, lk, r_new, r_removed,
                   r_result, r_pre_config, r_pre_routers, r_overlap>>
    /\ UNCHANGED <<supVars, gateVars, extVars>>

\* faulty variant: the snapshot is replaced while a reader holds its guard
ReloadSwap_IgnoresReaders ==
    /\ r_pc = "swap"
    /\ config' = r_new
    /\ routers_lock' = "free"
    /\ r_pc' = "done"
    /\ r_result' = "ok"
    /\ UNCHANGED <<routers, nextRouter, lk, r_new, r_removed,
                   r_pre_config, r_pre_routers, r_overlap>>
    /\ UNCHANGED <<supVars, gateVars, extVars>>

\* lines 218-220: the snapshot is swapped under the write guard of
\* app.config, the routers guard is dropped and Ok(()) is returned
ReloadSwap ==
    /\ r_pc = "swap"
    /\ cfg_readers = 0
    /\ config' = r_new
    /\ routers_lock' = "free"
    /\ r_pc' = "done"
    /\ r_result' = "ok"
    /\ UNCHANGED <<routers, nextRouter, lk, r_new, r_removed,
                   r_pre_config, r_pre_routers, r_overlap>>
    /\ UNCHANGED <<supVars, gateVars, extVars>>

\* main.rs lines 123-125: the result is dropped (`let _ =`) and the
\* supervisor loop continues
ReloadReturn ==
    /\ r_pc = "done"
    /\ r_pc' = "idle"
    /\ r_new' = NoConfig
    /\ r_removed' = {}
    /\ r_result' = "none"
    /\ r_pre_config' = NoConfig
    /\ r_pre_routers' = EmptyCache
    /\ r_overlap' = FALSE
    /\ UNCHANGED <<config, routers, routers_lock, nextRouter, lk>>
    /\ UNCHANGED <<supVars, gateVars, extVars>>

----------------------------------------------------------------------------
(* The reload supervisor (src/src/main.rs 100-148) *)

\* main.rs line 145: Duration::from_secs(2)
Debounce == 2
\* main.rs line 100: mpsc::channel(1)
ChanCap == 1
\* `reload` is None
NoTimer == -1
\* what the watcher callback sends: Ok(event) of a kind, or Err
EventKinds == {"modify_data", "modify_metadata", "modify_name", "create",
               "remove", "error"}
\* no content-modified event since the last reload
NoBurst == [n |-> 0, first |-> -1, last |-> -1]
\* no reload_config call yet
NoFire == [n |-> -1, first |-> -1, last |-> -1, at |-> -1]

\* lines 115-116 and 100: no timer, an empty open channel (the counter `i`
\* of line 115 only numbers the log lines and is left out)
SupInit ==
    /\ now = 0
    /\ reload = NoTimer
    /\ chan = <<>>
    /\ chan_open = TRUE
    /\ sup_pc = "loop"
    /\ burst = NoBurst
    /\ fired = NoFire
    /\ last_ev = "none"

\* faulty variant: a Modify event of any kind arms the timer
AfterEvent_AnyModifyArms(timer, ev) ==
    IF ev = "error" THEN timer
    ELSE IF ev \in {"modify_data", "modify_metadata", "modify_name"}
         THEN now + Debounce
    ELSE timer

\* faulty variant: every event received re-arms the timer
AfterEvent_AnyArms(timer, ev) == now + Debounce

\* lines 136-146: the timer after an event was received with `timer` pending:
\* an Err is skipped, a Modify(Data) event arms a new sleep of 2 seconds,
\* any other event leaves `reload` as it is
AfterEvent(timer, ev) ==
    IF ev = "error" THEN timer
    ELSE IF ev = "modify_data" THEN now + Debounce
    ELSE timer

\* history: the burst after an event was received
BurstAfter(ev) ==
    IF ev # "modify_data" THEN burst
    ELSE IF burst.n = 0 THEN [n |-> 1, first |-> now, last |-> now]
    ELSE [n |-> IF burst.n < BurstCap THEN burst.n + 1 ELSE BurstCap,
          first |-> burst.first, last |-> now]

\* lines 102-105: the watcher callback sends a result; blocking_send waits
\* while the channel is full
WatcherSend ==
    /\ chan_open
    /\ Len(chan) < ChanCap
    /\ \E ev \in EventKinds : chan' = Append(chan, ev)
    /\ UNCHANGED <<now, reload, chan_open, sup_pc, burst, fired, last_ev>>
    /\ UNCHANGED <<appVars, gateVars, extVars>>

\* lines 188-191: main returns and drops the watcher, which closes the channel
WatcherDrop ==
    /\ chan_open
    /\ chan_open' = FALSE
    /\ UNCHANGED <<now, reload, chan, sup_pc, burst, fired, last_ev>>
    /\ UNCHANGED <<appVars, gateVars, extVars>>

\* time passes
Tick ==
    /\ now < MaxTime
    /\ now' = now + 1
    /\ UNCHANGED <<reload, chan, chan_open, sup_pc, burst, fired, last_ev>>
    /\ UNCHANGED <<appVars, gateVars, extVars>>

\* lines 133-146: no timer is pending and rx.recv() yields an event
SupRecvIdle ==
    /\ sup_pc = "loop"
    /\ reload = NoTimer
    /\ chan # <<>>
    /\ chan' = Tail(chan)
    /\ reload' = AfterEvent(NoTimer, Head(chan))
    /\ burst' = BurstAfter(Head(chan))
    /\ fired' = IF Head(chan) = "modify_data" THEN NoFire ELSE fired
    /\ last_ev' = Head(chan)
    /\ UNCHANGED <<now, chan_open, sup_pc>>
    /\ UNCHANGED <<appVars, gateVars, extVars>>

\* faulty variant: the recv branch does not put the pending sleep back
SupRecvArmed_DropsTimer ==
    /\ sup_pc = "loop"
    /\ reload # NoTimer
    /\ chan # <<>>
    /\ chan' = Tail(chan)
    /\ reload' = AfterEvent(NoTimer, Head(chan))
    /\ burst' = BurstAfter(Head(chan))
    /\ last_ev' = Head(chan)
    /\ UNCHANGED <<now, chan_open, sup_pc, fired>>
    /\ UNCHANGED <<appVars, gateVars, extVars>>

\* lines 118-120, 127-146: a timer is pending and select! takes the recv
\* branch (select! picks among the ready branches at random, so also when
\* the sleep has elapsed); the sleep is put back before the event is handled
SupRecvArmed ==
    /\ sup_pc = "loop"
    /\ reload # NoTimer
    /\ chan # <<>>
    /\ chan' = Tail(chan)
    /\ reload' = AfterEvent(reload, Head(chan))
    /\ burst' = BurstAfter(Head(chan))
    /\ last_ev' = Head(chan)
    /\ UNCHANGED <<now, chan_open, sup_pc, fired>>
    /\ UNCHANGED <<appVars, gateVars, extVars>>

\* faulty variant: the elapsed timer stays pending after the reload
SupFire_KeepsTimer ==
    /\ sup_pc = "loop"
    /\ reload # NoTimer
    /\ now >= reload
    /\ fired' = [n |-> burst.n, first |-> burst.first, last |-> burst.last, at |-> now]
    /\ burst' = NoBurst
    /\ UNCHANGED <<now, reload, chan, chan_open, sup_pc, last_ev>>
    /\ UNCHANGED <<appVars, gateVars, extVars>>

\* lines 118-126: the pending sleep elapses: `reload` was taken, reload_config
\* runs to its end (here no serve_mcp request runs beside it) and its result
\* is dropped; the loop continues
SupFire ==
    /\ sup_pc = "loop"
    /\ reload # NoTimer
    /\ now >= reload
    /\ reload' = NoTimer
    /\ \/ UNCHANGED <<config, routers>>
       \/ \E nc \in Configs :
            /\ routers' = Evict(routers, RemovedAbsent(routers, nc)
                                         \cup RemovedChanged(config, nc))
            /\ config' = nc
    /\ fired' = [n |-> burst.n, first |-> burst.first, last |-> burst.last, at |-> now]
    /\ burst' = NoBurst
    /\ UNCHANGED <<now, chan, chan_open, sup_pc, last_ev>>
    /\ UNCHANGED <<routers_lock, nextRouter, lk, r_pc, r_new, r_removed,
                   r_result, r_pre_config, r_pre_routers, r_overlap>>
    /\ UNCHANGED <<gateVars, extVars>>

\* lines 127-138 and 133-138: the channel is closed and empty, rx.recv()
\* yields None and the loop breaks, a pending timer is dropped
SupBreak ==
    /\ sup_pc = "loop"
    /\ chan = <<>>
    /\ ~chan_open
    /\ sup_pc' = "stopped"
    /\ UNCHANGED <<now, reload, chan, chan_open, burst, fired, last_ev>>
    /\ UNCHANGED <<appVars, gateVars, extVars>>

\* lines 119, 145: a second of the pending sleep passes. Time is counted
\* from the present here, so the deadline comes a second closer and the
\* clock has no end
Elapse ==
    /\ reload > now
    /\ reload' = reload - 1
    /\ UNCHANGED <<now, chan, chan_open, sup_pc, burst, fired, last_ev>>
    /\ UNCHANGED <<appVars, gateVars, extVars>>

\* the supervisor alone, with the watcher and the clock
NextSup ==
    \/ WatcherSend
    \/ WatcherDrop
    \/ Tick
    \/ SupRecvIdle
    \/ SupRecvArmed
    \/ SupFire
    \/ SupBreak

----------------------------------------------------------------------------
(* Gate (src/src/gate.rs) and the upstream client factory (src/src/config.rs) *)

\* handle_request calls that run at the same time on one Gate
Reqs == {1, 2}
\* Gate.client is None
NoClient == 0
\* the clients create_client can make
Clients == 1..MaxClients
\* requests forwarded with their params (gate.rs 50-68, 102-125)
ForwardKinds == {"complete", "set_level", "get_prompt", "read_resource",
                 "subscribe", "unsubscribe", "call_tool"}
\* requests answered from the upstream's aggregated list (gate.rs 69-101, 126-133)
ListKinds == {"list_prompts", "list_resources", "list_resource_templates",
              "list_tools"}
\* requests that need the upstream client
ProxiedKinds == ForwardKinds \cup ListKinds
\* ClientRequest
Kinds == {"initialize", "ping"} \cup ProxiedKinds

\* no handle_request call is running
IdleReq == [pc |-> "idle", kind |-> "ping", client |-> NoClient, reply |-> "none"]

\* Option<ClientInfo> is None
NoInfo == "none"
\* what ctx.peer.peer_info() can be: the ClientInfo the inbound peer declared
PeerInfos == {NoInfo, "inbound client"}
\* config.rs 182-189: the identity used when no ClientInfo is given
DefaultClientInfo == "test sse client"
\* config.rs 182: client_info.unwrap_or_else(..)
ClientInfoFor(client_info) ==
    IF client_info = NoInfo THEN DefaultClientInfo ELSE client_info

\* client.peer_info() is None
NoPeer == 0
\* InitializeResult::default(), the value of unwrap_or_default() on None
DefaultInitializeResult == -1
\* the InitializeResult the upstream behind client c declared
PeerInfoOf(c) == c
\* faulty variant: the reply is built from the Gate's own defaults
InitializeResultOf_Default(peer) == DefaultInitializeResult
\* gate.rs 45: client.peer_info().cloned().unwrap_or_default()
InitializeResultOf(peer) ==
    IF peer = NoPeer THEN DefaultInitializeResult ELSE peer

\* ErrorCode::INTERNAL_ERROR
INTERNAL_ERROR == -32603
\* ServiceError values an upstream call can return
ServiceErrors == {"McpError", "TransportClosed"}
\* err.to_string() of a ServiceError
ServiceErrorText(err) ==
    IF err = "McpError" THEN "Mcp error: {0}" ELSE "Transport closed"
\* faulty variant: the upstream error's text is dropped
mcp_err_NoMessage(err) ==
    [info |-> NoPeer, err |-> err, code |-> INTERNAL_ERROR, msg |-> ""]
\* gate.rs 154-156
mcp_err(err) ==
    [info |-> NoPeer, err |-> err, code |-> INTERNAL_ERROR,
     msg |-> ServiceErrorText(err)]
\* Error values create_client can return (error.rs 10-28)
FactoryErrors == {"Io", "SseTransport"}
\* error.rs 11-14: the Display of an Error
ErrorText(err) ==
    IF err = "SseTransport" THEN "Client error: {0}" ELSE "{0}"
\* gate.rs 158-162: From<Error> for McpError
McpErrorFrom(err) ==
    [info |-> NoPeer, err |-> err, code |-> INTERNAL_ERROR,
     msg |-> ErrorText(err)]

\* a call that has produced no reply
NoOut == [info |-> NoPeer, err |-> "none", code |-> 0, msg |-> ""]
\* an Ok reply that carries the InitializeResult res
InitializeResult(res) == [info |-> res, err |-> "none", code |-> 0, msg |-> ""]
\* a client create_client has not made
NoClientData == [arg |-> NoInfo, info |-> NoInfo, peer |-> NoPeer]

\* Gate::new (gate.rs 25-30): an empty slot
GateInit ==
    /\ client = NoClient
    /\ nextClient = 1
    /\ hs = [c \in Clients |-> "none"]
    /\ rq = [t \in Reqs |-> IdleReq]
    /\ slot_writes = 0
    /\ retry = {}
    /\ cl = [c \in Clients |-> NoClientData]
    /\ out = [t \in Reqs |-> NoOut]
    /\ note = [kind |-> "none", result |-> "none"]

\* faulty variant: the client is stored as soon as it is made, before its handshake
GateInitialize_StoresPending(t) ==
    /\ rq[t].pc = "idle"
    /\ nextClient <= MaxClients
    /\ hs' = [hs EXCEPT ![nextClient] = "pending"]
    /\ rq' = [rq EXCEPT ![t] = [pc |-> "factory", kind |-> "initialize",
                                client |-> nextClient, reply |-> "none"]]
    /\ nextClient' = nextClient + 1
    /\ retry' = IF \E c \in Clients : hs[c] = "failed"
                THEN retry \cup {nextClient} ELSE retry
    /\ client' = nextClient
    /\ slot_writes' = slot_writes + 1
    /\ cl' = [cl EXCEPT ![nextClient] =
                [arg |-> peer_info, info |-> ClientInfoFor(peer_info),
                 peer |-> NoPeer]]
    /\ UNCHANGED <<peer_info, out>>
    /\ UNCHANGED <<appVars, supVars, extVars>>

\* gate.rs 40-42, config.rs 178-195: initialize invokes create_client, which
\* starts a transport and the handshake of a new client
GateInitialize(t) ==
    /\ rq[t].pc = "idle"
    /\ nextClient <= MaxClients
    /\ hs' = [hs EXCEPT ![nextClient] = "pending"]
    /\ rq' = [rq EXCEPT ![t] = [pc |-> "factory", kind |-> "initialize",
                                client |-> nextClient, reply |-> "none"]]
    /\ nextClient' = nextClient + 1
    /\ retry' = IF \E c \in Clients : hs[c] = "failed"
                THEN retry \cup {nextClient} ELSE retry
    /\ cl' = [cl EXCEPT ![nextClient] =
                [arg |-> peer_info, info |-> ClientInfoFor(peer_info),
                 peer |-> NoPeer]]
    /\ UNCHANGED <<client, slot_writes, peer_info, out>>
    /\ UNCHANGED <<appVars, supVars, extVars>>

\* config.rs 42-52, 90-109, 135-144: the handshake completes, Ok(client)
FactoryOk(t) ==
    /\ rq[t].pc = "factory"
    /\ hs' = [hs EXCEPT ![rq[t].client] = "ready"]
    /\ rq' = [rq EXCEPT ![t].pc = "write"]
    /\ \E peer \in {NoPeer, PeerInfoOf(rq[t].client)} :
         cl' = [cl EXCEPT ![rq[t].client].peer = peer]
    /\ UNCHANGED <<client, nextClient, slot_writes, retry, peer_info, out>>
    /\ UNCHANGED <<appVars, supVars, extVars>>

\* faulty variant: the client is stored whatever create_client returned
FactoryFail_StoresClient(t) ==
    /\ rq[t].pc = "factory"
    /\ hs' = [hs EXCEPT ![rq[t].client] = "failed"]
    /\ rq' = [rq EXCEPT ![t].pc = "done", ![t].reply = "internal_error"]
    /\ \E err \in FactoryErrors : out' = [out EXCEPT ![t] = McpErrorFrom(err)]
    /\ client' = rq[t].client
    /\ slot_writes' = slot_writes + 1
    /\ UNCHANGED <<nextClient, retry, peer_info, cl>>
    /\ UNCHANGED <<appVars, supVars, extVars>>

\* config.rs 42-50, 105-107, 142: the transport or the handshake fails;
\* gate.rs 42, 158-162: `?` turns the Error into an INTERNAL_ERROR reply
FactoryFail(t) ==
    /\ rq[t].pc = "factory"
    /\ hs' = [hs EXCEPT ![rq[t].client] = "failed"]
    /\ rq' = [rq EXCEPT ![t].pc = "done", ![t].reply = "internal_error"]
    /\ \E err \in FactoryErrors : out' = [out EXCEPT ![t] = McpErrorFrom(err)]
    /\ cl' = [cl EXCEPT ![rq[t].client] = NoClientData]
    /\ UNCHANGED <<client, nextClient, slot_writes, retry, peer_info>>
    /\ UNCHANGED <<appVars, supVars, extVars>>

\* gate.rs 43-47: the client is stored and its peer info is the reply
GateInitWrite(t) ==
    /\ rq[t].pc = "write"
    /\ client' = rq[t].client
    /\ slot_writes' = slot_writes + 1
    /\ rq' = [rq EXCEPT ![t].pc = "done", ![t].reply = "initialize_result"]
    /\ out' = [out EXCEPT ![t] =
                InitializeResult(InitializeResultOf(cl[rq[t].client].peer))]
    /\ UNCHANGED <<nextClient, hs, retry, peer_info, cl>>
    /\ UNCHANGED <<appVars, supVars, extVars>>

\* faulty variant: ping takes the client from the slot like a forwarded request
GatePing_Unwraps(t) ==
    /\ rq[t].pc = "idle"
    /\ rq' = [rq EXCEPT ![t] =
               IF client = NoClient
               THEN [pc |-> "done", kind |-> "ping", client |-> NoClient,
                     reply |-> "panic"]
               ELSE [pc |-> "upstream", kind |-> "ping", client |-> client,
                     reply |-> "none"]]
    /\ UNCHANGED <<client, nextClient, hs, slot_writes, retry, peer_info, cl, out>>
    /\ UNCHANGED <<appVars, supVars, extVars>>

\* gate.rs 49: ping is answered with an empty result
GatePing(t) ==
    /\ rq[t].pc = "idle"
    /\ rq' = [rq EXCEPT ![t] = [pc |-> "done", kind |-> "ping",
                                client |-> NoClient, reply |-> "empty"]]
    /\ UNCHANGED <<client, nextClient, hs, slot_writes, retry, peer_info, cl, out>>
    /\ UNCHANGED <<appVars, supVars, extVars>>

\* gate.rs 51, 58, 65, 70, 80, 88, 103, 112, 117, 122, 127:
\* self.client.read().await.as_ref().unwrap().clone() with a client stored
GateReadSlot(t) ==
    /\ rq[t].pc = "idle"
    /\ client # NoClient
    /\ \E k \in ProxiedKinds :
         rq' = [rq EXCEPT ![t] = [pc |-> "upstream", kind |-> k,
                                  client |-> client, reply |-> "none"]]
    /\ UNCHANGED <<client, nextClient, hs, slot_writes, retry, peer_info, cl, out>>
    /\ UNCHANGED <<appVars, supVars, extVars>>

\* the same lines with an empty slot: unwrap() of None panics, the call
\* unwinds and gives no reply
GateUnwrapNone(t) ==
    /\ rq[t].pc = "idle"
    /\ client = NoClient
    /\ \E k \in ProxiedKinds :
         rq' = [rq EXCEPT ![t] = [pc |-> "done", kind |-> k,
                                  client |-> NoClient, reply |-> "panic"]]
    /\ UNCHANGED <<client, nextClient, hs, slot_writes, retry, peer_info, cl, out>>
    /\ UNCHANGED <<appVars, supVars, extVars>>

\* the upstream call returns Ok: its result is the reply (a list reply
\* carries next_cursor: None)
GateUpstreamOk(t) ==
    /\ rq[t].pc = "upstream"
    /\ rq' = [rq EXCEPT ![t].pc = "done", ![t].reply = "result"]
    /\ UNCHANGED <<client, nextClient, hs, slot_writes, retry, peer_info, cl, out>>
    /\ UNCHANGED <<appVars, supVars, extVars>>

\* gate.rs 154-156: the upstream call returns a ServiceError, mapped by mcp_err
GateUpstreamErr(t) ==
    /\ rq[t].pc = "upstream"
    /\ rq' = [rq EXCEPT ![t].pc = "done", ![t].reply = "internal_error"]
    /\ \E err \in ServiceErrors : out' = [out EXCEPT ![t] = mcp_err(err)]
    /\ UNCHANGED <<client, nextClient, hs, slot_writes, retry, peer_info, cl>>
    /\ UNCHANGED <<appVars, supVars, extVars>>

\* handle_request has returned (or unwound); the task ends
GateReturn(t) ==
    /\ rq[t].pc = "done"
    /\ rq' = [rq EXCEPT ![t] = IdleReq]
    /\ out' = [out EXCEPT ![t] = NoOut]
    /\ UNCHANGED <<client, nextClient, hs, slot_writes, retry, peer_info, cl>>
    /\ UNCHANGED <<appVars, supVars, extVars>>

\* one Gate serving the requests of its session
NextGate ==
    \/ \E t \in Reqs : GateInitialize(t)
    \/ \E t \in Reqs : FactoryOk(t)
    \/ \E t \in Reqs : FactoryFail(t)
    \/ \E t \in Reqs : GateInitWrite(t)
    \/ \E t \in Reqs : GatePing(t)
    \/ \E t \in Reqs : GateReadSlot(t)
    \/ \E t \in Reqs : GateUnwrapNone(t)
    \/ \E t \in Reqs : GateUpstreamOk(t)
    \/ \E t \in Reqs : GateUpstreamErr(t)
    \/ \E t \in Reqs : GateReturn(t)

----------------------------------------------------------------------------
(* Gate::handle_notification (src/src/gate.rs 137-147) *)

\* faulty variant: a notification unbinds the Gate
GateNotification_Unbinds ==
    /\ \E n \in {"cancelled", "progress", "initialized", "roots_list_changed"} :
         note' = [kind |-> n, result |-> "Ok"]
    /\ client' = NoClient
    /\ UNCHANGED <<nextClient, hs, rq, slot_writes, retry, peer_info, cl, out>>
    /\ UNCHANGED <<appVars, supVars, pageVars, parseVars, lsVars, lockVars>>

\* gate.rs 141-146: every ClientNotification is matched to Ok(()); the
\* function has no suspension point and touches nothing of the Gate
GateNotification ==
    /\ \E n \in {"cancelled", "progress", "initialized", "roots_list_changed"} :
         note' = [kind |-> n, result |-> "Ok"]
    /\ UNCHANGED <<appVars, supVars, gateVars, pageVars, parseVars, lsVars, lockVars>>

\* one Gate, the handle_request calls of its session one at a time, and
\* the notifications of the session
NextNote ==
    \/ GateNotification
    \/ GateInitialize(1)
    \/ FactoryOk(1)
    \/ FactoryFail(1)
    \/ GateInitWrite(1)
    \/ GatePing(1)
    \/ GateReadSlot(1)
    \/ GateUnwrapNone(1)
    \/ GateUpstreamOk(1)
    \/ GateUpstreamErr(1)
    \/ GateReturn(1)

----------------------------------------------------------------------------
(* A list request of a bound Gate (src/src/gate.rs 69-101, 126-133) *)

\* the most pages an upstream serves for one list
MaxPages == 2
\* the most items of one page
MaxPageLen == 2
\* prompts, resources, resource templates or tools
Items == {"x", "y"}
\* next_cursor: None
NoCursor == 0
\* the pages an upstream can serve
Pages == UNION {[1..k -> Items] : k \in 0..MaxPageLen}
\* the page sequences an upstream can serve: at least the first page
Upstreams == UNION {[1..k -> Pages] : k \in 1..MaxPages}

\* the upstream's answer to one list request: the request without cursor
\* gets the first page, the cursor of page i gets page i + 1, the last page
\* carries no cursor
UpstreamPage(pages, cursor) ==
    [items |-> pages[cursor + 1],
     next_cursor |-> IF cursor + 1 < Len(pages) THEN cursor + 1 ELSE NoCursor]

\* no reply yet
NoReply == [type |-> "none", items |-> <<>>, next_cursor |-> NoCursor]
\* faulty variant: the reply announces a further page
ListResult_WithCursor(kind, items) ==
    [type |-> kind, items |-> items, next_cursor |-> 1]
\* gate.rs 74-77, 82-85, 94-99, 129-132: List*Result { next_cursor: None, items }
ListResult(kind, items) ==
    [type |-> kind, items |-> items, next_cursor |-> NoCursor]
\* gate.rs 72, 81, 90-93, 128: map_err(mcp_err)? of a failed list_all_* call
ListError == [type |-> "internal_error", items |-> <<>>, next_cursor |-> NoCursor]

\* no list request is running
PageInit ==
    /\ pg_pc = "idle"
    /\ pg_kind = "list_tools"
    /\ pg_upstream = <<>>
    /\ pg_cursor = NoCursor
    /\ pg_items = <<>>
    /\ pg_reply = NoReply

\* gate.rs 70, 80, 88, 127: the client is taken from the slot and its
\* list_all_* operation is called
ListReadSlot ==
    /\ pg_pc = "idle"
    /\ client # NoClient
    /\ \E k \in ListKinds, up \in Upstreams :
         /\ pg_kind' = k
         /\ pg_upstream' = up
    /\ pg_pc' = "list_all"
    /\ pg_cursor' = NoCursor
    /\ pg_items' = <<>>
    /\ pg_reply' = NoReply
    /\ UNCHANGED <<appVars, supVars, gateVars, parseVars, lsVars, note, lockVars>>

\* list_all_* of the client: one page is requested with the cursor of the
\* page before and its items are appended, until a page has no cursor
ListAllPage ==
    /\ pg_pc = "list_all"
    /\ LET page == UpstreamPage(pg_upstream, pg_cursor) IN
         /\ pg_items' = pg_items \o page.items
         /\ pg_cursor' = page.next_cursor
         /\ pg_pc' = IF page.next_cursor = NoCursor THEN "wrap" ELSE "list_all"
    /\ UNCHANGED <<pg_kind, pg_upstream, pg_reply>>
    /\ UNCHANGED <<appVars, supVars, gateVars, parseVars, lsVars, note, lockVars>>

\* a page request fails: list_all_* returns the ServiceError, which
\* gate.rs 72, 81, 90-93, 128 turn into the reply
ListAllFail ==
    /\ pg_pc = "list_all"
    /\ pg_pc' = "done"
    /\ pg_reply' = ListError
    /\ UNCHANGED <<pg_kind, pg_upstream, pg_cursor, pg_items>>
    /\ UNCHANGED <<appVars, supVars, gateVars, parseVars, lsVars, note, lockVars>>

\* gate.rs 74-77, 82-85, 94-99, 129-132: the aggregated list is the reply
ListWrap ==
    /\ pg_pc = "wrap"
    /\ pg_pc' = "done"
    /\ pg_reply' = ListResult(pg_kind, pg_items)
    /\ UNCHANGED <<pg_kind, pg_upstream, pg_cursor, pg_items>>
    /\ UNCHANGED <<appVars, supVars, gateVars, parseVars, lsVars, note, lockVars>>

\* handle_request has returned
ListReturn ==
    /\ pg_pc = "done"
    /\ pg_pc' = "idle"
    /\ pg_kind' = "list_tools"
    /\ pg_upstream' = <<>>
    /\ pg_cursor' = NoCursor
    /\ pg_items' = <<>>
    /\ pg_reply' = NoReply
    /\ UNCHANGED <<appVars, supVars, gateVars, parseVars, lsVars, note, lockVars>>

\* the list requests of one session, one at a time
NextPage ==
    \/ ListReadSlot
    \/ ListAllPage
    \/ ListAllFail
    \/ ListWrap
    \/ ListReturn

\* gate.rs 40-48: a Gate after one successful initialize
BoundGate ==
    /\ client = 1
    /\ nextClient = 2
    /\ hs = [c \in Clients |-> IF c = 1 THEN "ready" ELSE "none"]
    /\ rq = [t \in Reqs |-> IdleReq]
    /\ slot_writes = 1
    /\ retry = {}
    /\ peer_info = NoInfo
    /\ cl = [c \in Clients |->
               IF c = 1 THEN [arg |-> NoInfo, info |-> DefaultClientInfo,
                              peer |-> PeerInfoOf(1)]
               ELSE NoClientData]
    /\ out = [t \in Reqs |-> NoOut]
    /\ note = [kind |-> "none", result |-> "none"]

----------------------------------------------------------------------------
(* ServerEntry: parsing and serialization (src/src/config.rs 27-35, 72-83,
   120-128, 165-175, 248-293) *)

\* the members a ServerEntry object can have
Fields == {"type", "name", "description", "url", "command", "args", "cwd", "env"}
\* a JSON value of "type" that is not a string, such as 5
NotString == "(a number)"
\* the values of "type" in the objects parsed
TypeValues == {"sse", "stdio", "streamable", "streamableHttp", "foo", "", NotString}
\* the value each other member has when present
FieldValue(k) ==
    CASE k = "name" -> "a name"
      [] k = "description" -> "a description"
      [] k = "url" -> "http://upstream/mcp"
      [] k = "command" -> "echo"
      [] k = "args" -> "[hello]"
      [] k = "cwd" -> "/tmp"
      [] k = "env" -> "{K: V}"
\* a JSON object: a map from the member names present to their values
Object(D, typ) == [k \in D |-> IF k = "type" THEN typ ELSE FieldValue(k)]
\* the JSON objects parsed
Objects == {Object(D, typ) : D \in SUBSET Fields, typ \in TypeValues}
\* {}
EmptyObject == [k \in {} |-> ""]
\* JSON null
Null == "null"
\* Option::None
None == "(none)"

\* config.rs 277: const VARIANTS
VARIANTS == <<"sse", "stdio", "streamable", "streamableHttp">>
\* config.rs 260-268: the value of the first "type" member, as a string;
\* as_str() of a value that is not a string is None, unwrap_or_default() is ""
TypeOf(obj) ==
    IF "type" \in DOMAIN obj /\ obj["type"] # NotString THEN obj["type"] ELSE ""

\* faulty variant: the alias "streamable" is not known
VariantOf_NoAlias(typ) ==
    CASE typ = "sse" -> "Sse"
      [] typ = "streamableHttp" -> "Streamable"
      [] typ \in {"stdio", ""} -> "Stdio"
      [] OTHER -> "unknown"
\* config.rs 279-286: the variant chosen for a tag
VariantOf(typ) ==
    CASE typ = "sse" -> "Sse"
      [] typ \in {"streamable", "streamableHttp"} -> "Streamable"
      [] typ \in {"stdio", ""} -> "Stdio"
      [] OTHER -> "unknown"

\* an Option member: absent or null is None
Opt(obj, k) == IF k \in DOMAIN obj /\ obj[k] # Null THEN obj[k] ELSE None
\* serde: missing field `k`
MissingField(k) == [variant |-> "Err", error |-> "missing field", detail |-> k]
\* config.rs 287-289: de::Error::unknown_variant(typ, VARIANTS)
UnknownVariant(typ) ==
    [variant |-> "Err", error |-> "unknown variant", detail |-> typ,
     expected |-> VARIANTS]

\* config.rs 27-35: derive(Deserialize) of McpSseConfig
DeserializeSse(obj) ==
    IF "url" \notin DOMAIN obj THEN MissingField("url")
    ELSE [variant |-> "Sse", name |-> Opt(obj, "name"),
          description |-> Opt(obj, "description"), url |-> obj["url"]]
\* config.rs 120-128: derive(Deserialize) of McpStreamableConfig
DeserializeStreamable(obj) ==
    IF "url" \notin DOMAIN obj THEN MissingField("url")
    ELSE [variant |-> "Streamable", name |-> Opt(obj, "name"),
          description |-> Opt(obj, "description"), url |-> obj["url"]]
\* config.rs 72-83: derive(Deserialize) of McpStdioConfig
DeserializeStdio(obj) ==
    IF "command" \notin DOMAIN obj THEN MissingField("command")
    ELSE IF "args" \notin DOMAIN obj THEN MissingField("args")
    ELSE [variant |-> "Stdio", name |-> Opt(obj, "name"),
          description |-> Opt(obj, "description"),
          command |-> obj["command"], args |-> obj["args"],
          cwd |-> Opt(obj, "cwd"), env |-> Opt(obj, "env")]

\* config.rs 248-293: Deserialize for McpServerConfig
Deserialize(obj) ==
    CASE VariantOf(TypeOf(obj)) = "Sse" -> DeserializeSse(obj)
      [] VariantOf(TypeOf(obj)) = "Streamable" -> DeserializeStreamable(obj)
      [] VariantOf(TypeOf(obj)) = "Stdio" -> DeserializeStdio(obj)
      [] OTHER -> UnknownVariant(TypeOf(obj))

\* config.rs 165-175: the tag serde writes for a variant
TagOf(variant) ==
    CASE variant = "Sse" -> "sse"
      [] variant = "Stdio" -> "stdio"
      [] variant = "Streamable" -> "streamableHttp"
\* skip_serializing_if = "Option::is_none": the Option members left out
Skipped(v, optional) == {k \in optional : v[k] = None}
\* an Option member without skip_serializing_if: None is written as null
OrNull(x) == IF x = None THEN Null ELSE x
\* config.rs 27-35, 120-128: derive(Serialize) of McpSseConfig and of
\* McpStreamableConfig, inside the tagged enum (165-175)
SerializeUrl(v) ==
    [k \in {"type", "name", "description", "url"} \ Skipped(v, {"name", "description"})
        |-> IF k = "type" THEN TagOf(v.variant) ELSE v[k]]
\* config.rs 72-83: derive(Serialize) of McpStdioConfig, inside the tagged enum
SerializeStdio(v) ==
    [k \in {"type", "name", "description", "command", "args", "cwd", "env"}
           \ Skipped(v, {"name", "description"})
        |-> CASE k = "type" -> TagOf(v.variant)
              [] k \in {"cwd", "env"} -> OrNull(v[k])
              [] OTHER -> v[k]]
\* config.rs 165-175: derive(Serialize) of McpServerConfig
Serialize(v) ==
    IF v.variant = "Stdio" THEN SerializeStdio(v) ELSE SerializeUrl(v)

\* nothing parsed
NoValue == [variant |-> "none"]

ParseInit ==
    /\ p_pc = "idle"
    /\ p_in = EmptyObject
    /\ p_out = NoValue
    /\ p_ser = EmptyObject

\* serde_json::from_str::<McpServerConfig>(input)
ParseEntry ==
    /\ p_pc = "idle"
    /\ \E obj \in Objects :
         /\ p_in' = obj
         /\ p_out' = Deserialize(obj)
    /\ p_pc' = "parsed"
    /\ UNCHANGED p_ser
    /\ UNCHANGED <<appVars, supVars, gateVars, pageVars, lsVars, note, lockVars>>

\* the parsed entry is serialized again
SerializeEntry ==
    /\ p_pc = "parsed"
    /\ p_out.variant # "Err"
    /\ p_ser' = Serialize(p_out)
    /\ p_pc' = "serialized"
    /\ UNCHANGED <<p_in, p_out>>
    /\ UNCHANGED <<appVars, supVars, gateVars, pageVars, lsVars, note, lockVars>>

\* the next entry
ParseNext ==
    /\ p_pc \in {"parsed", "serialized"}
    /\ p_pc' = "idle"
    /\ p_in' = EmptyObject
    /\ p_out' = NoValue
    /\ p_ser' = EmptyObject
    /\ UNCHANGED <<appVars, supVars, gateVars, pageVars, lsVars, note, lockVars>>

NextParse ==
    \/ ParseEntry
    \/ SerializeEntry
    \/ ParseNext

----------------------------------------------------------------------------
(* list_servers (src/src/main.rs 279-321) *)

\* params.get("host") is None
NoParam == "(no host parameter)"
\* req.headers().get(header::HOST) is None
NoHeader == "(no Host header)"
\* a Host header whose to_str() fails
NotText == "(not visible ASCII)"
\* the query parameters and the Host header of a request
Queries == [sse : BOOLEAN, https : BOOLEAN, host : {NoParam, "h.example"},
            header : {NoHeader, NotText, "gw.local"}]
NoQuery == [sse |-> FALSE, https |-> FALSE, host |-> NoParam, header |-> NoHeader]

\* lines 285-289
Scheme(q) == IF q.https THEN "https" ELSE "http"
\* lines 293-298: the Host header as text, or ""
HeaderHost(header) == IF header \in {NoHeader, NotText} THEN "" ELSE header
\* faulty variant: the Host header wins over the host parameter
Host_HeaderFirst(q) ==
    IF q.header \notin {NoHeader, NotText} THEN q.header
    ELSE IF q.host # NoParam THEN q.host ELSE ""
\* lines 290-299
Host(q) == IF q.host # NoParam THEN q.host ELSE HeaderHost(q.header)
\* line 309: format!("{schame}://{host}/{name}/sse")
SseUrl(q, name) == <<Scheme(q), "://", Host(q), "/", name, "/sse">>
\* line 311: format!("{schame}://{host}/{name}")
StreamableUrl(q, name) == <<Scheme(q), "://", Host(q), "/", name>>

\* config.rs 213-219: name() of the entries of the snapshots
EntryName(s) == IF s = "B" THEN "B name" ELSE None
\* config.rs 221-227: description() of the entries of the snapshots
EntryDescription(s) == IF s = "A" THEN "A description" ELSE None
\* config.rs 197-203
to_sse(s, url) ==
    [variant |-> "Sse", name |-> EntryName(s),
     description |-> EntryDescription(s), url |-> url]
\* config.rs 205-211
to_streamable(s, url) ==
    [variant |-> "Streamable", name |-> EntryName(s),
     description |-> EntryDescription(s), url |-> url]
\* lines 308-312, 320: the entry written for service name
Rewritten(q, name, s) ==
    Serialize(IF q.sse THEN to_sse(s, SseUrl(q, name))
              ELSE to_streamable(s, StreamableUrl(q, name)))

\* no list_servers call is running
ListInit ==
    /\ cfg_readers = 0
    /\ ls_pc = "idle"
    /\ ls_q = NoQuery
    /\ ls_todo = {}
    /\ ls_resp = EmptyObject
    /\ ls_seen = NoConfig
    /\ ls_at = NoConfig

\* lines 284-305: the parameters are read, the read guard of app.config is
\* taken and the iteration over servers starts
ListServersStart ==
    /\ ls_pc = "idle"
    /\ \E q \in Queries : ls_q' = q
    /\ cfg_readers' = cfg_readers + 1
    /\ ls_pc' = "iter"
    /\ ls_todo' = ConfigKeys(config)
    /\ ls_at' = config
    /\ UNCHANGED <<ls_resp, ls_seen>>
    /\ UNCHANGED <<appVars, supVars, gateVars, pageVars, parseVars, note, lockVars>>

\* lines 306-315: one (name, s) of the map is rewritten
ListServersEntry ==
    /\ ls_pc = "iter"
    /\ \E name \in ls_todo :
         /\ ls_resp' = [n \in DOMAIN ls_resp \cup {name} |->
                          IF n = name THEN Rewritten(ls_q, name, config[name])
                          ELSE ls_resp[n]]
         /\ ls_seen' = [ls_seen EXCEPT ![name] = config[name]]
         /\ ls_todo' = ls_todo \ {name}
    /\ UNCHANGED <<cfg_readers, ls_pc, ls_q, ls_at>>
    /\ UNCHANGED <<appVars, supVars, gateVars, pageVars, parseVars, note, lockVars>>

\* lines 316-320: collect() ends the statement, the guard is dropped and
\* Json(Config { servers }) is the response
ListServersRespond ==
    /\ ls_pc = "iter"
    /\ ls_todo = {}
    /\ cfg_readers' = cfg_readers - 1
    /\ ls_pc' = "done"
    /\ UNCHANGED <<ls_q, ls_todo, ls_resp, ls_seen, ls_at>>
    /\ UNCHANGED <<appVars, supVars, gateVars, pageVars, parseVars, note, lockVars>>

\* the response has been sent
ListServersReturn ==
    /\ ls_pc = "done"
    /\ ls_pc' = "idle"
    /\ ls_q' = NoQuery
    /\ ls_resp' = EmptyObject
    /\ ls_seen' = NoConfig
    /\ ls_at' = NoConfig
    /\ UNCHANGED <<cfg_readers, ls_todo>>
    /\ UNCHANGED <<appVars, supVars, gateVars, pageVars, parseVars, note, lockVars>>

\* list_servers calls, one at a time, interleaved with reload_config
NextCfg ==
    \/ ListServersStart
    \/ ListServersEntry
    \/ ListServersRespond
    \/ ListServersReturn
    \/ ReloadReadFail
    \/ ReloadRead
    \/ ReloadScanRouters
    \/ ReloadScanConfig
    \/ ReloadEvict
    \/ ReloadSwap
    \/ ReloadReturn

----------------------------------------------------------------------------
(* The RwLocks of App and Gate and the handlers that take them
   (src/src/main.rs 62-68, 194-220, 301-316, 337-365; src/src/gate.rs 19-56) *)

\* The path of a handler is the sequence of its lock operations and of its
\* other suspension points:
\*   <<"read", l>>, <<"write", l>>   l.read().await, l.write().await
\*   <<"drop", l>>                   the guard of l goes out of scope
\*   <<"io", x>>                     an .await on x, which is no lock
\* l is "routers" (App.routers), "config" (App.config) or "client"
\* (Gate.client).

\* the handlers that run at the same time: two requests to /{service_name},
\* a request to /mcp/config, the reload of the supervisor, and two requests
\* of one session of a Gate
Handlers ==
    {<<"serve_mcp", 1>>, <<"serve_mcp", 2>>, <<"list_servers", 1>>,
     <<"reload_config", 1>>, <<"handle_request", 1>>, <<"handle_request", 2>>}

\* faulty variant of the miss: the read guard of config lives until the
\* router is inserted
serve_mcp_KeepsConfigGuard ==
    {<< <<"read", "routers">>, <<"drop", "routers">>, <<"io", "router">> >>,
     << <<"read", "routers">>, <<"drop", "routers">>,
        <<"read", "config">>, <<"drop", "config">> >>,
     << <<"read", "routers">>, <<"drop", "routers">>,
        <<"read", "config">>,
        <<"write", "routers">>, <<"drop", "routers">>, <<"drop", "config">>,
        <<"io", "router">> >>}

\* main.rs 337-365. A hit: the guard of line 337 is a temporary of the let
\* statement, then the router serves the request (364). A miss without an
\* entry: the same, then the temporary guard of line 342, then the 404. A
\* miss with an entry: the router is built with no guard held and inserted
\* under the temporary write guard of lines 357-360, then it serves.
serve_mcp ==
    {<< <<"read", "routers">>, <<"drop", "routers">>, <<"io", "router">> >>,
     << <<"read", "routers">>, <<"drop", "routers">>,
        <<"read", "config">>, <<"drop", "config">> >>,
     << <<"read", "routers">>, <<"drop", "routers">>,
        <<"read", "config">>, <<"drop", "config">>,
        <<"write", "routers">>, <<"drop", "routers">>,
        <<"io", "router">> >>}

\* main.rs 301-316: the read guard is a temporary of the statement that
\* iterates over servers
list_servers ==
    {<< <<"read", "config">>, <<"drop", "config">> >>}

\* main.rs 194-220, after Config::read has succeeded (a failed read returns
\* at line 195 before any lock; Config::read, config.rs 23, is not async):
\* the temporary read guards of lines 197-205 and 207-209, the guard
\* `routers` of line 213, which lives to the end of the function, and the
\* temporary write guard of line 218
reload_config ==
    {<< <<"read", "routers">>, <<"drop", "routers">>,
        <<"read", "config">>, <<"drop", "config">>,
        <<"write", "routers">>,
        <<"write", "config">>, <<"drop", "config">>,
        <<"drop", "routers">> >>}

\* faulty variant: a proxied request keeps the read guard of the slot while
\* the upstream call runs
handle_request_GuardAcrossCall ==
    {<< <<"io", "create_client">>, <<"write", "client">>, <<"drop", "client">> >>,
     << <<"io", "create_client">> >>,
     << <<"read", "client">>, <<"io", "upstream">>, <<"drop", "client">> >>,
     << <<"read", "client">>, <<"drop", "client">> >>}

\* gate.rs 40-133. initialize: create_client is awaited (42), then the slot
\* is written under a temporary guard (43); or create_client fails and `?`
\* returns. A proxied request: the client is cloned out of the slot under a
\* temporary read guard (51, 58, ..., 127), then the upstream call is
\* awaited; or unwrap() panics on the empty slot and the guard is dropped as
\* the call unwinds. (ping, line 49, takes no lock and awaits nothing.)
handle_request ==
    {<< <<"io", "create_client">>, <<"write", "client">>, <<"drop", "client">> >>,
     << <<"io", "create_client">> >>,
     << <<"read", "client">>, <<"drop", "client">>, <<"io", "upstream">> >>,
     << <<"read", "client">>, <<"drop", "client">> >>}

\* main.rs 95-96, gate.rs 25-30: no handler runs, no guard is held, no
\* handler waits
LockInit ==
    /\ guards = {}
    /\ waiters = [l \in {"routers", "config", "client"} |-> <<>>]
    /\ at = [t \in Handlers |-> [path |-> <<>>, i |-> 0, waiting |-> FALSE]]

\* the handler is called and takes one of its paths
Call(t) ==
    /\ at[t].path = <<>>
    /\ \E p \in (CASE t[1] = "serve_mcp" -> serve_mcp
                   [] t[1] = "list_servers" -> list_servers
                   [] t[1] = "reload_config" -> reload_config
                   [] t[1] = "handle_request" -> handle_request) :
         at' = [at EXCEPT ![t] = [path |-> p, i |-> 1, waiting |-> FALSE]]
    /\ UNCHANGED <<guards, waiters>>
    /\ UNCHANGED <<appVars, supVars, gateVars, pageVars, parseVars, lsVars, note>>

\* l.read().await or l.write().await is polled: the handler joins the queue
\* of the lock (the RwLock of tokio grants in the order of the requests)
Await(t) ==
    /\ at[t].path # <<>>
    /\ at[t].i <= Len(at[t].path)
    /\ ~at[t].waiting
    /\ LET op == at[t].path[at[t].i] IN
         /\ op[1] \in {"read", "write"}
         /\ waiters' = [waiters EXCEPT ![op[2]] = Append(@, <<t, op[1]>>)]
    /\ at' = [at EXCEPT ![t].waiting = TRUE]
    /\ UNCHANGED guards
    /\ UNCHANGED <<appVars, supVars, gateVars, pageVars, parseVars, lsVars, note>>

\* the first handler of the queue gets its guard: a read guard when no
\* write guard is held, a write guard when no guard is held
Grant(t) ==
    /\ at[t].waiting
    /\ LET op == at[t].path[at[t].i] IN
         /\ waiters[op[2]] # <<>>
         /\ Head(waiters[op[2]]) = <<t, op[1]>>
         /\ \A g \in guards : g[2] = op[2] => (op[1] = "read" /\ g[3] = "read")
         /\ waiters' = [waiters EXCEPT ![op[2]] = Tail(@)]
         /\ guards' = guards \cup {<<t, op[2], op[1]>>}
    /\ at' = [at EXCEPT ![t].waiting = FALSE, ![t].i = @ + 1]
    /\ UNCHANGED <<appVars, supVars, gateVars, pageVars, parseVars, lsVars, note>>

\* a guard goes out of scope: at the end of the statement for a temporary,
\* at the end of the function for a local
DropGuard(t) ==
    /\ at[t].path # <<>>
    /\ at[t].i <= Len(at[t].path)
    /\ LET op == at[t].path[at[t].i] IN
         /\ op[1] = "drop"
         /\ guards' = {g \in guards : ~(g[1] = t /\ g[2] = op[2])}
    /\ at' = [at EXCEPT ![t].i = @ + 1]
    /\ UNCHANGED waiters
    /\ UNCHANGED <<appVars, supVars, gateVars, pageVars, parseVars, lsVars, note>>

\* an .await on something that is no lock completes: the router has served
\* the request, create_client or the upstream call has returned
Suspend(t) ==
    /\ at[t].path # <<>>
    /\ at[t].i <= Len(at[t].path)
    /\ at[t].path[at[t].i][1] = "io"
    /\ at' = [at EXCEPT ![t].i = @ + 1]
    /\ UNCHANGED <<guards, waiters>>
    /\ UNCHANGED <<appVars, supVars, gateVars, pageVars, parseVars, lsVars, note>>

\* the handler returns
Return(t) ==
    /\ at[t].path # <<>>
    /\ at[t].i = Len(at[t].path) + 1
    /\ at' = [at EXCEPT ![t] = [path |-> <<>>, i |-> 0, waiting |-> FALSE]]
    /\ UNCHANGED <<guards, waiters>>
    /\ UNCHANGED <<appVars, supVars, gateVars, pageVars, parseVars, lsVars, note>>

\* the handlers of the App, each called again and again
NextLock ==
    \E t \in {h \in Handlers : h[1] # "handle_request"} :
        \/ Call(t)
        \/ Await(t)
        \/ Grant(t)
        \/ DropGuard(t)
        \/ Suspend(t)
        \/ Return(t)

\* the handlers of the App, with one request to /{service_name}, and the
\* requests of a session of a Gate
NextHold ==
    \E t \in Handlers \ {<<"serve_mcp", 2>>} :
        \/ Call(t)
        \/ Await(t)
        \/ Grant(t)
        \/ DropGuard(t)
        \/ Suspend(t)
        \/ Return(t)

----------------------------------------------------------------------------
(* Specification of the App: lookups interleaved with reloads *)

\* main.rs lines 84-98: the snapshot read at startup and an empty cache
AppInit ==
    /\ config \in Configs
    /\ routers = EmptyCache
    /\ routers_lock = "free"
    /\ nextRouter = 1
    /\ lk = [t \in Lookups |-> IdleLookup]
    /\ r_pc = "idle"
    /\ r_new = NoConfig
    /\ r_removed = {}
    /\ r_result = "none"
    /\ r_pre_config = NoConfig
    /\ r_pre_routers = EmptyCache
    /\ r_overlap = FALSE

\* the App after startup, its supervisor, and a Gate of a session whose peer
\* has declared no ClientInfo
Init ==
    /\ AppInit
    /\ SupInit
    /\ GateInit
    /\ peer_info = NoInfo
    /\ PageInit
    /\ ParseInit
    /\ ListInit
    /\ LockInit

Next ==
    \/ \E t \in Lookups : ServeReadRouters(t)
    \/ \E t \in Lookups : ServeNotFound(t)
    \/ \E t \in Lookups : ServeReturn(t)
    \/ \E t \in Lookups : ServeBuild(t)
    \/ \E t \in Lookups : ServeInsert(t)
    \/ \E t \in Lookups : ServeCall(t)
    \/ ReloadReadFail
    \/ ReloadRead
    \/ ReloadScanRouters
    \/ ReloadScanConfig
    \/ ReloadEvict
    \/ ReloadSwap
    \/ ReloadReturn

Spec == Init /\ [][Next]_vars

\* the reload supervisor with no serve_mcp request running
SpecSup == Init /\ [][NextSup]_vars

\* the supervisor while the watcher lives, with time that never ends
NextLive ==
    \/ WatcherSend
    \/ Elapse
    \/ SupRecvIdle
    \/ SupRecvArmed
    \/ SupFire

\* time passes; the loop's task is scheduled whenever it can run, and
\* select! (main.rs 120-131), which polls its branches in random order,
\* does not pass over a branch that stays ready
SpecLive ==
    /\ Init
    /\ [][NextLive]_vars
    /\ WF_vars(Elapse)
    /\ WF_vars(SupRecvIdle)
    /\ WF_vars(SupRecvArmed)
    /\ WF_vars(SupFire)

\* make_mcp_router lines 388-391, 404-407: a Gate made for a session of a
\* service of the snapshot
InitGate ==
    /\ AppInit
    /\ config = [n \in Names |-> "A"]
    /\ SupInit
    /\ GateInit
    /\ peer_info \in PeerInfos
    /\ PageInit
    /\ ParseInit
    /\ ListInit
    /\ LockInit

\* a Gate bound by an initialize, about to serve list requests
InitPage ==
    /\ AppInit
    /\ config = [n \in Names |-> "A"]
    /\ SupInit
    /\ BoundGate
    /\ PageInit
    /\ ParseInit
    /\ ListInit
    /\ LockInit

\* the list requests of a bound Gate
SpecPage == InitPage /\ [][NextPage]_vars

\* ServerEntry objects parsed and serialized one after the other
SpecParse == Init /\ [][NextParse]_vars

\* the readers and the writer of the config snapshot
SpecCfg == Init /\ [][NextCfg]_vars

\* one Gate and the handle_request calls of its session
SpecGate == InitGate /\ [][NextGate]_vars

\* the handlers of the App and their locks: every handler that can take a
\* step is scheduled (the tasks of tokio's runtime), except that an .await
\* on I/O need not ever complete and a handler need not ever be called
SpecLock ==
    /\ InitPage
    /\ [][NextLock]_vars
    /\ \A t \in {h \in Handlers : h[1] # "handle_request"} :
          WF_lockVars(Await(t) \/ Grant(t) \/ DropGuard(t))

\* the handlers of the App and of a Gate, and the guards they hold
SpecHold == InitPage /\ [][NextHold]_vars

\* one Gate, its requests and its notifications
SpecNote == InitGate /\ [][NextNote]_vars

----------------------------------------------------------------------------
(* Claims about the App *)

\* C1 (as claimed): whenever no reload_config call is in progress, every
\* cached router was built from the entry the current snapshot holds under
\* the same service name.
C1_CacheMatchesSnapshot ==
    r_pc \in {"idle", "done"} =>
        \A s \in Names : routers[s] # NoRouter => routers[s].entry = config[s]

\* the keys a reload from snapshot old to snapshot new has to evict: absent
\* from new, or present in both with entries that differ
MustEvict(old, new) ==
    {k \in Names : new[k] = NoEntry
                   \/ (old[k] # NoEntry /\ new[k] # NoEntry /\ old[k] # new[k])}

\* C2: after a successful reload_config with no concurrent lookup the cache
\* keys are those of before minus exactly the keys absent from the new config
\* or changed by it, and every key that stays keeps its router.
C2_ReloadEvictsExactly ==
    (r_pc = "done" /\ r_result = "ok" /\ ~r_overlap) =>
        /\ CacheKeys(routers) = CacheKeys(r_pre_routers) \ MustEvict(r_pre_config, config)
        /\ \A k \in CacheKeys(routers) : routers[k] = r_pre_routers[k]

\* C2 witness: from {a: A, b: B} with a and b cached, a reload to
\* {a: A, b: B'} has returned and only a is cached.
C2_Witness ==
    /\ r_pc = "done" /\ r_result = "ok" /\ ~r_overlap
    /\ CacheKeys(r_pre_routers) = {"a", "b"}
    /\ r_pre_config["a"] = config["a"]
    /\ config["b"] \notin {NoEntry, r_pre_config["b"]}
    /\ CacheKeys(routers) = {"a"}

\* C3: a reload_config call that fails on Config::read leaves the snapshot
\* and the router cache as they were.
C3_FailedReloadKeepsState ==
    [][(r_pc = "idle" /\ r_result' = "err") =>
          (config' = config /\ routers' = routers)]_vars

\* C3 witness: a failed reload has returned while routers are cached and the
\* snapshot and the cache are those of before the call.
C3_Witness ==
    /\ r_pc = "done" /\ r_result = "err" /\ ~r_overlap
    /\ CacheKeys(routers) # {}
    /\ routers = r_pre_routers /\ config = r_pre_config

----------------------------------------------------------------------------
(* Claims about the reload supervisor *)

\* C4 (as claimed): an event received while the debounce timer is armed,
\* whatever its kind, leaves the timer's deadline as it was.
C4_ArmedTimerNeverReset ==
    [][SupRecvArmed => reload' = reload]_vars

\* C4 (amended): an event received while the timer is armed leaves the
\* deadline as it was unless it is a content-modified event, which re-arms
\* the timer to 2 seconds after that event; so the reload does not run before
\* 2 seconds have passed since the last content-modified event of the burst.
C4_ArmedTimerResetOnlyByContent ==
    [][/\ SupRecvArmed =>
            reload' = IF Head(chan) = "modify_data" THEN now + Debounce ELSE reload
       /\ (fired' # fired /\ fired'.n >= 0) => fired'.at >= fired'.last + Debounce
      ]_vars

\* C4 witness: a second content-modified event, received a second after the
\* first, has moved the deadline to 2 seconds after itself.
C4_Witness ==
    /\ reload # NoTimer
    /\ burst.n >= 2
    /\ burst.last > burst.first
    /\ reload = burst.last + Debounce
    /\ reload > burst.first + Debounce

\* C5: every reload_config call serves a burst of at least one
\* content-modified event received since the previous call (so a burst is
\* never reloaded twice) and runs only when 2 seconds have passed since the
\* first event of the burst; while events of a burst are unserved, a timer is
\* pending for them.
C5_OneReloadPerBurstAfterWindow ==
    /\ fired.n >= 0 => (fired.n >= 1 /\ fired.at >= fired.first + Debounce)
    /\ sup_pc = "loop" => (burst.n >= 1 <=> reload # NoTimer)

\* C5 witness: two or more content-modified events were received less than
\* 2 seconds apart and one reload_config call has served them, after the
\* window; no timer is left pending.
C5_Witness ==
    /\ fired.n >= 2
    /\ fired.last - fired.first < Debounce
    /\ fired.at >= fired.first + Debounce
    /\ reload = NoTimer
    /\ burst.n = 0

\* C22: an event the loop receives that is not a content-modified event (a
\* metadata-only modify, a rename, a create, a remove, or an Err of the
\* watcher) leaves `reload` as it was, no timer when there was none and the
\* same deadline when one was pending; and a reload_config call is made only
\* when a content-modified event was received since the call before.
C22_OnlyContentEventsArm ==
    [][/\ (chan # <<>> /\ chan' = Tail(chan) /\ Head(chan) # "modify_data") =>
            /\ reload' = reload
            /\ burst' = burst
       /\ (fired' # fired /\ fired'.n >= 0) => burst.n >= 1
      ]_vars

\* C22 witness: a rename was the last event received, a second after a
\* content-modified event armed the timer, and the deadline is still the one
\* that event set.
C22_Witness ==
    /\ last_ev = "modify_name"
    /\ burst.n = 1
    /\ now = burst.last + 1
    /\ reload = burst.last + Debounce

\* C24 (as claimed): every content-modified event the loop receives is
\* followed by a reload_config call, whatever events arrive after it.
C24_ContentEventLeadsToReload ==
    (burst.n >= 1) ~> (burst.n = 0)

\* C24 (amended): every content-modified event the loop receives is followed
\* by a reload_config call, unless content-modified events are received
\* again and again for ever, each re-arming the timer; events of other kinds
\* and the result of earlier calls do not prevent the call.
C24_ReloadUnlessContentEventsNeverStop ==
    \/ []<><<chan # <<>> /\ chan' = Tail(chan) /\ Head(chan) = "modify_data">>_vars
    \/ (burst.n >= 1) ~> (burst.n = 0)

\* C24 witness: a reload_config call has served a burst of two or more
\* content-modified events, a later event of another kind was received, and
\* the loop is running with no timer pending.
C24_Witness ==
    /\ fired.n >= 2
    /\ burst.n = 0
    /\ reload = NoTimer
    /\ last_ev = "remove"
    /\ sup_pc = "loop"

----------------------------------------------------------------------------
(* Claims about the Gate *)

\* the upstream clients that exist: made by a successful create_client and
\* still held by the slot or by a running handle_request call
LiveClients ==
    {c \in Clients : /\ hs[c] = "ready"
                     /\ \/ client = c
                        \/ \E t \in Reqs : rq[t].pc \in {"write", "upstream"}
                                           /\ rq[t].client = c}

\* C6 (as claimed): for one Gate, create_client is invoked at most once, the
\* client slot is written at most once and at most one upstream client
\* exists at any time.
C6_SingleBind ==
    /\ nextClient - 1 <= 1
    /\ slot_writes <= 1
    /\ Cardinality(LiveClients) <= 1

\* C7 (as claimed): a request other than initialize and ping that finds the
\* client slot empty is answered with an INTERNAL_ERROR error, never by a
\* panic.
C7_EmptySlotGivesError ==
    \A t \in Reqs :
        (rq[t].pc = "done" /\ rq[t].kind \in ProxiedKinds
                           /\ rq[t].client = NoClient)
            => rq[t].reply = "internal_error"

\* C8: handling a ping ends in one step with an empty result, whatever the
\* state of the Gate; no client is made, none is called and the slot keeps
\* its value.
C8_PingBypass ==
    [][\A t \in Reqs :
          (rq[t].pc = "idle" /\ rq'[t].pc # "idle" /\ rq'[t].kind = "ping") =>
              /\ rq'[t].pc = "done"
              /\ rq'[t].reply = "empty"
              /\ rq'[t].client = NoClient
              /\ client' = client
              /\ nextClient' = nextClient
              /\ hs' = hs
              /\ slot_writes' = slot_writes
      ]_vars

\* C8 witness: a ping was answered with an empty result by a Gate that has
\* seen no initialize.
C8_Witness ==
    /\ client = NoClient
    /\ nextClient = 1
    /\ \E t \in Reqs : rq[t].pc = "done" /\ rq[t].kind = "ping"
                       /\ rq[t].reply = "empty"

\* C9: when create_client fails during initialize, the call ends with an
\* INTERNAL_ERROR reply and leaves the client slot as it was; and every
\* initialize, also one after a failure, invokes create_client for a new
\* client.
C9_FactoryFailureLeavesSlot ==
    [][\A t \in Reqs :
          /\ (rq[t].pc = "factory" /\ hs'[rq[t].client] = "failed") =>
                /\ rq'[t].pc = "done"
                /\ rq'[t].reply = "internal_error"
                /\ client' = client
                /\ slot_writes' = slot_writes
          /\ (rq[t].pc = "idle" /\ rq'[t].pc # "idle"
                                /\ rq'[t].kind = "initialize") =>
                /\ rq'[t].pc = "factory"
                /\ nextClient' = nextClient + 1
                /\ hs'[rq'[t].client] = "pending"
      ]_vars

\* C9 witness: an initialize made after a failed create_client call has
\* bound the Gate to its client.
C9_Witness ==
    /\ client \in retry
    /\ hs[client] = "ready"
    /\ \E c \in Clients : hs[c] = "failed"

\* C10: the client in the slot, and every client a proxied request has taken
\* from the slot, has completed its handshake.
C10_SlotClientInitialized ==
    /\ client # NoClient => hs[client] = "ready"
    /\ \A t \in Reqs :
          (rq[t].kind \in ProxiedKinds /\ rq[t].client # NoClient)
              => hs[rq[t].client] = "ready"

\* C10 witness: a proxied request is calling the client it took from the
\* slot, while another create_client call has failed.
C10_Witness ==
    /\ \E t \in Reqs : rq[t].pc = "upstream" /\ rq[t].client = client
                       /\ hs[rq[t].client] = "ready"
    /\ \E c \in Clients : hs[c] = "failed"

\* C21: handling a notification of any of the four kinds, in whatever state
\* the Gate is, returns Ok and changes nothing of the Gate: no client is
\* made (the factory is not invoked), no upstream call is started or ended,
\* and the client slot keeps its value.
C21_NotificationsDropped ==
    [][note' # note =>
          /\ note'.kind \in {"cancelled", "progress", "initialized",
                              "roots_list_changed"}
          /\ note'.result = "Ok"
          /\ client' = client
          /\ slot_writes' = slot_writes
          /\ nextClient' = nextClient
          /\ hs' = hs
          /\ rq' = rq
          /\ cl' = cl
          /\ out' = out
      ]_vars

\* C21 witness: a roots_list_changed notification has returned Ok while a
\* forwarded request of the bound Gate is at its upstream call and the other
\* create_client call of the session has failed.
C21_Witness ==
    /\ note = [kind |-> "roots_list_changed", result |-> "Ok"]
    /\ client # NoClient
    /\ rq[1].pc = "upstream"
    /\ rq[1].client = client
    /\ \E c \in Clients : hs[c] = "failed"

\* C11: an initialize whose create_client call succeeded gave the factory the
\* inbound peer's ClientInfo, stores exactly the client the factory returned,
\* and replies with that client's InitializeResult unchanged, or with the
\* default InitializeResult when the client has no peer info.
C11_InitializeBindsAndReplies ==
    [][\A t \in Reqs :
          (rq[t].pc = "write" /\ rq'[t].pc = "done") =>
              /\ cl[rq[t].client].arg = peer_info
              /\ peer_info # NoInfo => cl[rq[t].client].info = peer_info
              /\ hs[rq[t].client] = "ready"
              /\ client' = rq[t].client
              /\ rq'[t].reply = "initialize_result"
              /\ out'[t].code = 0
              /\ out'[t].info = IF cl[rq[t].client].peer = NoPeer
                                THEN DefaultInitializeResult
                                ELSE cl[rq[t].client].peer
      ]_vars

\* C11 witness: an initialize of a peer that declared its ClientInfo has been
\* answered with the InitializeResult of the client it stored.
C11_Witness ==
    \E t \in Reqs :
        /\ rq[t].reply = "initialize_result"
        /\ peer_info = "inbound client"
        /\ client = rq[t].client
        /\ cl[client].arg = "inbound client"
        /\ out[t].info = PeerInfoOf(client)

\* C13: a forwarded request whose upstream call fails is answered with
\* INTERNAL_ERROR and the upstream error's text, and the failure leaves the
\* Gate bound to the same client.
C13_UpstreamErrorTranslated ==
    [][\A t \in Reqs :
          (rq[t].pc = "upstream" /\ rq'[t].pc = "done"
                                 /\ out'[t].err \in ServiceErrors) =>
              /\ rq'[t].reply = "internal_error"
              /\ out'[t].code = INTERNAL_ERROR
              /\ out'[t].msg = ServiceErrorText(out'[t].err)
              /\ client' = client
              /\ client' # NoClient
              /\ hs' = hs
      ]_vars

\* C13 witness: a request has been answered with the translated upstream
\* error and another request is being forwarded to the same stored client.
C13_Witness ==
    \E t, u \in Reqs :
        /\ rq[t].pc = "done"
        /\ rq[t].kind \in ProxiedKinds
        /\ out[t].code = INTERNAL_ERROR
        /\ out[t].msg = "Transport closed"
        /\ rq[u].pc = "upstream"
        /\ rq[u].client = rq[t].client
        /\ client = rq[t].client

\* the pages of an upstream, one after the other
RECURSIVE Concatenation(_)
Concatenation(pages) ==
    IF pages = <<>> THEN <<>> ELSE Head(pages) \o Concatenation(Tail(pages))

\* C12: the reply of a bound Gate to list_tools, list_prompts, list_resources
\* or list_resource_templates holds the items of all the upstream's pages, in
\* page order, and no next_cursor.
C12_ListReplyAggregatesPages ==
    (pg_pc = "done" /\ pg_reply.type # "internal_error") =>
        /\ pg_reply.type = pg_kind
        /\ pg_reply.items = Concatenation(pg_upstream)
        /\ pg_reply.next_cursor = NoCursor

\* C12 witness: list_tools has been answered with the items of two pages.
C12_Witness ==
    /\ pg_pc = "done"
    /\ pg_kind = "list_tools"
    /\ pg_upstream = << <<"x">>, <<"y", "x">> >>
    /\ pg_reply.items = <<"x", "y", "x">>
    /\ pg_reply.next_cursor = NoCursor

\* C14: a lookup that missed the cache and finds no entry for its name in
\* the snapshot returns 404 with the body 'Service {name} not found', builds
\* no router and leaves cache and snapshot as they were.
C14_UnknownServiceNotFound ==
    [][\A t \in Lookups :
          (lk[t].pc = "config" /\ config[lk[t].name] = NoEntry
                               /\ lk'[t] # lk[t]) =>
              /\ lk'[t].pc = "returned"
              /\ lk'[t].resp = [status |-> 404,
                                body |-> <<"Service ", lk[t].name, " not found">>]
              /\ routers' = routers
              /\ config' = config
              /\ nextRouter' = nextRouter
      ]_vars

\* C14 witness: a request for a service that is neither cached nor
\* configured has got its 404, while the other service is cached.
C14_Witness ==
    \E t \in Lookups :
        /\ lk[t].pc = "returned"
        /\ lk[t].name = "b"
        /\ lk[t].resp.status = 404
        /\ config["b"] = NoEntry
        /\ routers["b"] = NoRouter
        /\ routers["a"] # NoRouter

\* C15 (as claimed): a miss for a configured service builds a router from
\* the snapshot's entry, inserts it under the name and serves with it; and
\* until a reload evicts it the cached router stays the one every later
\* lookup of the name hits, no other router being built or inserted for it.
C15_MissBuildsThenHits ==
    [][/\ \A t \in Lookups :
            /\ (lk[t].pc = "config" /\ lk'[t].pc = "insert") =>
                  /\ config[lk[t].name] # NoEntry
                  /\ lk'[t].router = [id |-> nextRouter,
                                      entry |-> config[lk[t].name]]
            /\ (lk[t].pc = "insert" /\ lk'[t].pc = "serve") =>
                  /\ routers'[lk[t].name] = lk[t].router
                  /\ lk'[t].router = lk[t].router
            /\ (lk[t].pc = "idle" /\ lk'[t].pc # "idle"
                                  /\ routers[lk'[t].name] # NoRouter) =>
                  /\ lk'[t].pc = "serve"
                  /\ lk'[t].router = routers[lk'[t].name]
                  /\ nextRouter' = nextRouter
       /\ \A n \in Names :
            (routers[n] # NoRouter /\ routers'[n] # routers[n]) =>
                  /\ routers'[n] = NoRouter
                  /\ r_pc = "evict"
      ]_vars

\* C25 (as claimed): a router that serve_mcp inserts is the only one built
\* for its service since the last eviction: every insert finds no router
\* cached under its name, so no insert replaces a cached router and the
\* router a lookup serves with is the one that stays cached for the lookups
\* after it.
C25_SingleRouterPerEpoch ==
    [][\A t \in Lookups :
          (lk[t].pc = "insert" /\ lk'[t].pc = "serve") =>
              /\ routers[lk[t].name] = NoRouter
              /\ \A u \in Lookups :
                    (lk'[u].pc = "serve" /\ lk'[u].name = lk[t].name)
                        => lk'[u].router = routers'[lk[t].name]
      ]_vars

\* C17: an object without "type" is parsed as the Stdio variant, with its
\* absent optional members none; and an object tagged "streamable" is parsed
\* to the same result as the same object tagged "streamableHttp".
C17_DefaultStdioAndStreamableAlias ==
    p_pc \in {"parsed", "serialized"} =>
        /\ "type" \notin DOMAIN p_in =>
              /\ p_out.variant \in {"Stdio", "Err"}
              /\ p_out.variant = "Err" =>
                    /\ p_out.error = "missing field"
                    /\ p_out.detail \in {"command", "args"} \ DOMAIN p_in
              /\ {"command", "args"} \subseteq DOMAIN p_in =>
                    p_out = [variant |-> "Stdio",
                             name |-> IF "name" \in DOMAIN p_in
                                      THEN p_in["name"] ELSE None,
                             description |-> IF "description" \in DOMAIN p_in
                                             THEN p_in["description"] ELSE None,
                             command |-> p_in["command"],
                             args |-> p_in["args"],
                             cwd |-> IF "cwd" \in DOMAIN p_in
                                     THEN p_in["cwd"] ELSE None,
                             env |-> IF "env" \in DOMAIN p_in
                                     THEN p_in["env"] ELSE None]
        /\ ("type" \in DOMAIN p_in /\ p_in["type"] = "streamable") =>
              /\ p_out = Deserialize([p_in EXCEPT !["type"] = "streamableHttp"])
              /\ "url" \in DOMAIN p_in => p_out.variant = "Streamable"

\* C17 witness: the object {command, args} has been parsed as Stdio with
\* name, description, cwd and env none.
C17_Witness ==
    /\ p_pc = "parsed"
    /\ DOMAIN p_in = {"command", "args"}
    /\ p_out.variant = "Stdio"
    /\ p_out.name = None /\ p_out.description = None
    /\ p_out.cwd = None /\ p_out.env = None

\* C18 (as claimed): an object whose "type" is present with any value other
\* than sse, streamable, streamableHttp or stdio is rejected with an
\* unknown-variant error that reports the valid tags.
C18_UnknownTypeRejected ==
    (/\ p_pc \in {"parsed", "serialized"}
     /\ "type" \in DOMAIN p_in
     /\ p_in["type"] \notin {"sse", "streamable", "streamableHttp", "stdio"}) =>
        /\ p_out.variant = "Err"
        /\ p_out.error = "unknown variant"
        /\ p_out.expected = <<"sse", "stdio", "streamable", "streamableHttp">>

\* an object in canonical form: an explicit tag sse, stdio or streamableHttp,
\* the required members of that variant, and of its optional members only
\* those that have a value
Canonical(obj) ==
    /\ "type" \in DOMAIN obj
    /\ \/ /\ obj["type"] \in {"sse", "streamableHttp"}
          /\ "url" \in DOMAIN obj
          /\ DOMAIN obj \subseteq {"type", "name", "description", "url"}
       \/ /\ obj["type"] = "stdio"
          /\ {"command", "args"} \subseteq DOMAIN obj
          /\ DOMAIN obj \subseteq {"type", "name", "description", "command",
                                   "args", "cwd", "env"}
    /\ \A k \in DOMAIN obj : obj[k] # Null

\* C19 (as claimed): parsing a canonical object and serializing the result
\* gives the object back, and no optional member that is absent is written.
C19_RoundTrip ==
    (p_pc = "serialized" /\ Canonical(p_in)) =>
        /\ p_ser = p_in
        /\ \A k \in {"name", "description", "cwd", "env"} \cap DOMAIN p_out :
              p_out[k] = None => k \notin DOMAIN p_ser

\* C16: a list_servers call reads every entry of its response from one
\* snapshot, the one that was current when it took the read guard, and that
\* snapshot stays the current one until the call has read all of it: the
\* entries of two snapshots are never mixed, whatever reload_config does
\* meanwhile.
C16_ReadersSeeOneSnapshot ==
    /\ ls_pc \in {"iter", "done"} =>
          /\ \A n \in Names :
                ls_seen[n] = IF n \in ConfigKeys(ls_at) \ ls_todo
                             THEN ls_at[n] ELSE NoEntry
          /\ DOMAIN ls_resp = ConfigKeys(ls_at) \ ls_todo
    /\ ls_pc = "iter" => config = ls_at
    /\ cfg_readers = IF ls_pc = "iter" THEN 1 ELSE 0

\* C16 witness: a list_servers call has read one of two entries while
\* reload_config waits to install a snapshot that changes the other one.
C16_Witness ==
    /\ ls_pc = "iter"
    /\ ls_todo = {"b"}
    /\ ls_seen["a"] = "A"
    /\ r_pc = "swap"
    /\ r_new["a"] = "B"
    /\ r_new["b"] # config["b"]

\* C20: the response of /mcp/config has exactly the names of the snapshot;
\* the entry of name n is the sse variant with url {scheme}://{host}/{n}/sse
\* when the sse parameter is present, else the streamableHttp variant with
\* url {scheme}://{host}/{n}; the scheme is https exactly when the https
\* parameter is present; the host is the host parameter if given, else the
\* Host header (if it is text), else empty; and the handler changes neither
\* the snapshot nor the router cache.
C20_ListServersResponse ==
    [][/\ ls_pc' = "done" =>
            /\ DOMAIN ls_resp' = ConfigKeys(ls_at')
            /\ \A n \in DOMAIN ls_resp' :
                 LET scheme == IF ls_q'.https THEN "https" ELSE "http"
                     host == IF ls_q'.host # NoParam THEN ls_q'.host
                             ELSE IF ls_q'.header \in {NoHeader, NotText}
                                  THEN "" ELSE ls_q'.header
                 IN  IF ls_q'.sse
                     THEN /\ ls_resp'[n]["type"] = "sse"
                          /\ ls_resp'[n]["url"] =
                                <<scheme, "://", host, "/", n, "/sse">>
                     ELSE /\ ls_resp'[n]["type"] = "streamableHttp"
                          /\ ls_resp'[n]["url"] =
                                <<scheme, "://", host, "/", n>>
       /\ (ls_pc' # ls_pc \/ ls_todo' # ls_todo) =>
            /\ config' = config
            /\ routers' = routers
      ]_vars

\* C20 witness: a request with sse, https and host=h.example, and a Host
\* header besides, has been answered for a snapshot of two services.
C20_Witness ==
    /\ ls_pc = "done"
    /\ ls_q = [sse |-> TRUE, https |-> TRUE, host |-> "h.example",
               header |-> "gw.local"]
    /\ DOMAIN ls_resp = {"a", "b"}
    /\ ls_resp["a"]["type"] = "sse"
    /\ ls_resp["a"]["url"] = <<"https", "://", "h.example", "/", "a", "/sse">>

----------------------------------------------------------------------------
(* Claims about the locks *)

\* C23: no handler holds a guard while it awaits I/O: a handle_request call
\* holds no guard of the client slot during create_client or an upstream
\* call, serve_mcp holds no guard while the router serves its request, and
\* list_servers awaits nothing under its guard; a handler that holds a guard
\* at a suspension point is reload_config, holding the write guard of the
\* router cache while it awaits the write guard of the config; and no guard
\* outlives the call that took it.
C23_NoGuardAcrossIo ==
    \A t \in Handlers :
        LET held == {<<g[2], g[3]>> : g \in {x \in guards : x[1] = t}} IN
        IF at[t].path = <<>> \/ at[t].i > Len(at[t].path)
        THEN held = {}
        ELSE LET op == at[t].path[at[t].i] IN
             /\ op[1] = "io" => held = {}
             /\ (op[1] \in {"read", "write"} /\ held # {}) =>
                   /\ t[1] = "reload_config"
                   /\ held = {<<"routers", "write">>}
                   /\ op = <<"write", "config">>

\* C23 witness: reload_config holds the write guard of the router cache and
\* waits for the config, whose read guard list_servers holds, while
\* serve_mcp has its request served by a router, one handle_request call
\* awaits its upstream call and the other create_client, none of the three
\* holding a guard.
C23_Witness ==
    /\ guards = {<< <<"reload_config", 1>>, "routers", "write">>,
                 << <<"list_servers", 1>>, "config", "read">>}
    /\ at[<<"reload_config", 1>>].waiting
    /\ at[<<"serve_mcp", 1>>].path =
          << <<"read", "routers">>, <<"drop", "routers">>, <<"io", "router">> >>
    /\ at[<<"serve_mcp", 1>>].i = 3
    /\ at[<<"handle_request", 1>>].path =
          << <<"read", "client">>, <<"drop", "client">>, <<"io", "upstream">> >>
    /\ at[<<"handle_request", 1>>].i = 3
    /\ at[<<"handle_request", 2>>].path =
          << <<"io", "create_client">>, <<"write", "client">>, <<"drop", "client">> >>
    /\ at[<<"handle_request", 2>>].i = 1

\* C26: whatever the interleaving of serve_mcp, list_servers and
\* reload_config, a handler that waits for a lock gets it, and a handler
\* that has been called comes to the end of its lock operations holding no
\* guard: no deadlock is reachable.
C26_NoDeadlock ==
    \A t \in {h \in Handlers : h[1] # "handle_request"} :
        (at[t].path # <<>>) ~>
            /\ ~at[t].waiting
            /\ \A j \in 1..Len(at[t].path) :
                  j >= at[t].i => at[t].path[j][1] = "io"
            /\ \A g \in guards : g[1] # t

\* C26 witness: reload_config holds the write guard of the router cache and
\* waits for the write guard of the config, list_servers holds a read guard
\* of the config, and both serve_mcp requests wait for the router cache.
C26_Witness ==
    /\ guards = {<< <<"reload_config", 1>>, "routers", "write">>,
                 << <<"list_servers", 1>>, "config", "read">>}
    /\ waiters["config"] = << << <<"reload_config", 1>>, "write">> >>
    /\ Len(waiters["routers"]) = 2
    /\ at[<<"serve_mcp", 1>>].waiting
    /\ at[<<"serve_mcp", 2>>].waiting

====
